---- MODULE Spec2Model ----
(***************************************************************************)
(* FireO field descriptors and string utilities.                           *)
(*                                                                         *)
(*   fireo/utils/utils.py    collection_name, ref_path                     *)
(*   fireo/fields/fields.py  NestedModel, ReferenceField                   *)
(*   tests/v13/test_issue_87.py  create / fetch scenario                   *)
(*                                                                         *)
(* Python strings are sequences of one-character strings.                  *)
(***************************************************************************)
EXTENDS Integers, Sequences, FiniteSets, TLC

VARIABLES
    u_fn,       \* utilities: function applied last ("none" before a call)
    u_arg,      \* utilities: the string argument
    u_name,     \* utilities: value returned by collection_name
    u_path,     \* utilities: value returned by ref_path
    model_cls,  \* fields: class owning the ReferenceField (Field.model_cls)
    conn,       \* fields: the active connection, db.conn
    ref,        \* fields: attributes of the ReferenceField object
    nested,     \* fields: attributes of the NestedModel object
    last,       \* fields: the last call made, its arguments and its outcome
    docs,       \* store: documents of the collection
    next_id,    \* store: next identifier the backend assigns
    created,    \* store: instances returned by collection.create, in order
    fetched,    \* store: documents returned by collection.fetch
    s_pc        \* store: position of the test scenario

uvars == <<u_fn, u_arg, u_name, u_path>>
fvars == <<model_cls, conn, ref, nested, last>>
svars == <<docs, next_id, created, fetched, s_pc>>
vars == <<u_fn, u_arg, u_name, u_path, model_cls, conn, ref, nested, last,
          docs, next_id, created, fetched, s_pc>>

(***************************************************************************)
(* Bounds                                                                  *)
(***************************************************************************)
MaxLen == 4         \* longest string handed to a utility function

(***************************************************************************)
(* Characters                                                              *)
(***************************************************************************)
UpperSeq ==
    <<"A","B","C","D","E","F","G","H","I","J","K","L","M",
      "N","O","P","Q","R","S","T","U","V","W","X","Y","Z">>

LowerSeq ==
    <<"a","b","c","d","e","f","g","h","i","j","k","l","m",
      "n","o","p","q","r","s","t","u","v","w","x","y","z">>

\* the characters the regular expression class [A-Z] matches
UpperChars == { UpperSeq[i] : i \in 1..Len(UpperSeq) }

\* str.lower() on one character
lower_char(ch) ==
    IF ch \in UpperChars
    THEN LowerSeq[CHOOSE i \in 1..Len(UpperSeq) : UpperSeq[i] = ch]
    ELSE ch

\* str.lower()
lower(s) == [i \in 1..Len(s) |-> lower_char(s[i])]

\* last index of the greedy match of [A-Z]+ that starts at index i
RECURSIVE run_end(_, _)
run_end(s, i) ==
    IF i < Len(s) /\ s[i + 1] \in UpperChars THEN run_end(s, i + 1) ELSE i

\* re.sub('(?!^)([A-Z]+)', r'_\1', s), scanning from index i (1-based):
\* the lookahead (?!^) rejects a match only at the very first position
RECURSIVE re_sub(_, _)
re_sub(s, i) ==
    IF i > Len(s) THEN <<>>
    ELSE IF i # 1 /\ s[i] \in UpperChars
         THEN LET e == run_end(s, i)
              IN  <<"_">> \o SubSeq(s, i, e) \o re_sub(s, e + 1)
         ELSE <<s[i]>> \o re_sub(s, i + 1)

collection_name(model) == lower(re_sub(model, 1))

\* str.split('/') from index i with the segment collected so far
RECURSIVE split(_, _, _)
split(s, i, cur) ==
    IF i > Len(s) THEN <<cur>>
    ELSE IF s[i] = "/"
         THEN <<cur>> \o split(s, i + 1, <<>>)
         ELSE split(s, i + 1, Append(cur, s[i]))

\* a variant of split that drops empty segments
RECURSIVE split_drop_empty(_, _, _)
split_drop_empty(s, i, cur) ==
    IF i > Len(s) THEN (IF cur = <<>> THEN <<>> ELSE <<cur>>)
    ELSE IF s[i] = "/"
         THEN (IF cur = <<>> THEN <<>> ELSE <<cur>>)
              \o split_drop_empty(s, i + 1, <<>>)
         ELSE split_drop_empty(s, i + 1, Append(cur, s[i]))

ref_path_drop_empty(key) == split_drop_empty(key, 1, <<>>)

ref_path(key) == split(key, 1, <<>>)

(***************************************************************************)
(* Helpers used to state properties of the utilities                       *)
(***************************************************************************)
\* '/'.join(segs)
RECURSIVE join(_)
join(segs) ==
    IF Len(segs) = 0 THEN <<>>
    ELSE IF Len(segs) = 1 THEN segs[1]
         ELSE segs[1] \o <<"/">> \o join(Tail(segs))

count_char(s, ch) == Cardinality({ i \in 1..Len(s) : s[i] = ch })

\* index i starts a maximal run of uppercase letters of s
starts_run(s, i) ==
    /\ s[i] \in UpperChars
    /\ (i = 1 \/ s[i - 1] \notin UpperChars)

\* the lowercased input with one underscore before each maximal uppercase
\* run that does not begin at the first character
RECURSIVE snake_from(_, _)
snake_from(s, i) ==
    IF i > Len(s) THEN <<>>
    ELSE (IF i # 1 /\ starts_run(s, i) THEN <<"_">> ELSE <<>>)
         \o <<lower_char(s[i])>> \o snake_from(s, i + 1)

snake(s) == snake_from(s, 1)

\* bounded input alphabet and strings
InputChars == {"A", "B", "c", "7", "/"}

Strings(alphabet, n) == UNION { [1..k -> alphabet] : k \in 0..n }

Str_CompanyIssue87 ==
    <<"C","o","m","p","a","n","y","I","s","s","u","e","8","7">>
Str_company_issue87 ==
    <<"c","o","m","p","a","n","y","_","i","s","s","u","e","8","7">>

(***************************************************************************)
(* Specification of the utilities: an input is drawn, a function applied   *)
(***************************************************************************)
\* the variables of a part that a specification does not use
UIdle == u_fn = "-" /\ u_arg = <<>> /\ u_name = <<>> /\ u_path = <<>>
FIdle == model_cls = "-" /\ conn = "-" /\ ref = "-" /\ nested = "-" /\ last = "-"
SIdle == docs = {} /\ next_id = 0 /\ created = <<>> /\ fetched = {} /\ s_pc = "-"

UInit ==
    /\ u_fn = "none"
    /\ u_arg \in Strings(InputChars, MaxLen) \cup {Str_CompanyIssue87}
    /\ u_name = <<>>
    /\ u_path = <<>>
    /\ FIdle
    /\ SIdle

CallCollectionName ==
    /\ u_fn = "none"
    /\ u_fn' = "collection_name"
    /\ u_name' = collection_name(u_arg)
    /\ UNCHANGED <<u_arg, u_path, fvars, svars>>

CallRefPath ==
    /\ u_fn = "none"
    /\ u_fn' = "ref_path"
    /\ u_path' = ref_path(u_arg)
    /\ UNCHANGED <<u_arg, u_name, fvars, svars>>

UNext == CallCollectionName \/ CallRefPath

SpecUtils == UInit /\ [][UNext]_vars

(***************************************************************************)
(* C6: for every identifier over letters and digits, collection_name       *)
(* returns the lowercased input with exactly one underscore before each    *)
(* maximal run of uppercase letters that does not begin at the first       *)
(* character, and no underscore anywhere else.                             *)
(***************************************************************************)
IsIdent(s) == \A i \in 1..Len(s) : s[i] # "/"

C6_CollectionNameIsSnake ==
    (u_fn = "collection_name" /\ IsIdent(u_arg)) => u_name = snake(u_arg)

\* the documented example, which the code does satisfy
C6_ExampleHolds ==
    (u_fn = "collection_name" /\ u_arg = Str_CompanyIssue87)
        => u_name = Str_company_issue87

(***************************************************************************)
(* C7: ref_path(key) returns the segments between '/' separators: no       *)
(* segment contains '/', there is one more segment than there are '/' in   *)
(* the key (empty segments are kept), and joining the segments with '/'    *)
(* gives back the key.                                                     *)
(***************************************************************************)
C7_RefPathSplits ==
    u_fn = "ref_path" =>
        /\ \A i \in 1..Len(u_path) : count_char(u_path[i], "/") = 0
        /\ Len(u_path) = count_char(u_arg, "/") + 1
        /\ join(u_path) = u_arg

\* a key with empty segments has been split
C7_Witness ==
    /\ u_fn = "ref_path"
    /\ u_arg = <<"/", "A", "/", "/">>
    /\ u_path = << <<>>, <<"A">>, <<>>, <<>> >>

(***************************************************************************)
(* Python classes and values seen by the fields                            *)
(***************************************************************************)
\* the classes of the scenario: Model, three models, and two non-models
Classes == {"object", "Model", "User", "Admin", "Company", "Plain"}

\* cls.__bases__
Bases(c) ==
    CASE c = "object"  -> {}
      [] c = "Model"   -> {"object"}
      [] c = "User"    -> {"Model"}
      [] c = "Admin"   -> {"User"}
      [] c = "Company" -> {"Model"}
      [] c = "Plain"   -> {"object"}

\* the class and all its direct and transitive bases
RECURSIVE Ancestors(_)
Ancestors(c) == {c} \cup UNION { Ancestors(b) : b \in Bases(c) }

\* a subclass test that accepts only the class itself
issubclass_exact(c, d) == c = d

\* issubclass(c, d)
issubclass(c, d) == d \in Ancestors(c)

\* Python values: the type's name and the value's repr
PyNone  == [type |-> "NoneType", val |-> "None"]
PyTrue  == [type |-> "bool", val |-> "True"]
PyFalse == [type |-> "bool", val |-> "False"]
PyInt(n) == [type |-> "int", val |-> n]
PyStr(s) == [type |-> "str", val |-> s]

\* values offered as auto_load, and values travelling as field_val
AttrVals == {PyTrue, PyFalse, PyInt("0"), PyInt("1"), PyStr("yes"), PyNone}
FieldVals == {PyNone, PyStr("users/1")}

\* classes owning the reference field, and what getattr finds on them:
\* a method is callable, a declared field is a class attribute set to None
OwnerClasses == {"Post", "Comment"}
MethodNames == {"after_load", "title", "missing"}

getattr_kind(cls, attr) ==
    CASE cls = "Post" /\ attr = "after_load"    -> "callable"
      [] cls = "Post" /\ attr = "title"         -> "noncallable"
      [] cls = "Comment" /\ attr = "title"      -> "callable"
      [] OTHER                                  -> "absent"

\* the exception classes of fireo.fields.errors derive from Exception only
ExceptionBases(e) ==
    CASE e = "AttributeError" -> {"Exception"}
      [] e = "Exception"      -> {}
      [] OTHER                -> {"Exception"}

RECURSIVE ExceptionAncestors(_)
ExceptionAncestors(e) ==
    {e} \cup UNION { ExceptionAncestors(b) : b \in ExceptionBases(e) }

\* an "except cls" clause catches the raised exception
caught_by(raised, cls) == cls \in ExceptionAncestors(raised)

\* Field.name, set when the field is attached to its model class
FieldName == "author"

\* keys of model instances, and the connections db.conn may hold
KeyChars == {"u", "/"}
MaxKeyLen == 2
Keys == Strings(KeyChars, MaxKeyLen)
Conns == {"conn_a", "conn_b"}

(***************************************************************************)
(* Field objects                                                           *)
(***************************************************************************)
Unset == "<unset>"
PyUnset == [type |-> Unset, val |-> Unset]

\* no attribute of the field assigned yet
NoNested == [built |-> FALSE, nested_model |-> Unset]
NoRef == [built |-> FALSE, model_ref |-> Unset,
          auto_load |-> PyUnset, on_load |-> PyUnset]

NoErr == [kind |-> "-", msg |-> <<>>]
Err(kind, msg) == [kind |-> kind, msg |-> msg]
NoDocRef == [path |-> <<>>, client |-> "-"]

\* firestore.DocumentReference(*path, client=client)
DocumentReference(path, client) == [path |-> path, client |-> client]

\* the record of a call: arguments, outcome, and the calls it made
NoCall ==
    [op |-> "none", a_cls |-> "-", a_key |-> <<>>, a_val |-> PyNone,
     a_name |-> "-", a_field_val |-> PyNone,
     outcome |-> "none", ret |-> PyNone, ret_ref |-> NoDocRef, err |-> NoErr,
     made_ref |-> NoRef, made_nested |-> NoNested, calls |-> <<>>]

\* one call made by a handler: the function and what it was given
CallOf(fn, key, path, client) ==
    [fn |-> fn, key |-> key, path |-> path, client |-> client]

(***************************************************************************)
(* NestedModel                                                             *)
(***************************************************************************)
\* NestedModel.__init__(model): the object's attributes when it exits
NestedModel_init(model) ==
    IF ~issubclass(model, "Model")
    THEN [outcome |-> "raise",
          err |-> Err("NestedModelTypeError", <<model>>),
          obj |-> NoNested]
    ELSE [outcome |-> "return", err |-> NoErr,
          obj |-> [built |-> TRUE, nested_model |-> model]]

\* a check that accepts subclasses of the declared class as well
valid_model_subclass(self, instance_cls) ==
    IF issubclass(instance_cls, self.nested_model)
    THEN [outcome |-> "return", ret |-> PyTrue, err |-> NoErr]
    ELSE [outcome |-> "raise", ret |-> PyNone,
          err |-> Err("NestedModelTypeError",
                      <<FieldName, self.nested_model, instance_cls>>)]

\* NestedModel.valid_model(model_instance), given the instance's class
valid_model(self, instance_cls) ==
    IF self.nested_model = instance_cls
    THEN [outcome |-> "return", ret |-> PyTrue, err |-> NoErr]
    ELSE [outcome |-> "raise", ret |-> PyNone,
          err |-> Err("NestedModelTypeError",
                      <<FieldName, self.nested_model, instance_cls>>)]

(***************************************************************************)
(* ReferenceField                                                          *)
(***************************************************************************)
\* a constructor that stores the class before it checks it
ReferenceField_init_store_first(model_ref) ==
    IF ~issubclass(model_ref, "Model")
    THEN [outcome |-> "raise",
          err |-> Err("ReferenceTypeError", <<model_ref>>),
          obj |-> [NoRef EXCEPT !.model_ref = model_ref]]
    ELSE [outcome |-> "return", err |-> NoErr,
          obj |-> [built |-> TRUE, model_ref |-> model_ref,
                   auto_load |-> PyTrue, on_load |-> PyNone]]

\* ReferenceField.__init__(model_ref): the object's attributes when it exits
ReferenceField_init(model_ref) ==
    IF ~issubclass(model_ref, "Model")
    THEN [outcome |-> "raise",
          err |-> Err("ReferenceTypeError", <<model_ref>>),
          obj |-> NoRef]
    ELSE [outcome |-> "return", err |-> NoErr,
          obj |-> [built |-> TRUE, model_ref |-> model_ref,
                   auto_load |-> PyTrue, on_load |-> PyNone]]

\* a db_value that requires the exact declared class
db_value_exact(self, model, db_conn) ==
    IF model.cls # self.model_ref
    THEN [outcome |-> "raise", ret_ref |-> NoDocRef,
          err |-> Err("ReferenceTypeError",
                      <<FieldName, self.model_ref, model.cls>>),
          calls |-> <<>>]
    ELSE [outcome |-> "return",
          ret_ref |-> DocumentReference(ref_path(model.key), db_conn),
          err |-> NoErr,
          calls |-> <<CallOf("ref_path", model.key, <<>>, "-"),
                      CallOf("DocumentReference", <<>>,
                             ref_path(model.key), db_conn)>>]

\* a db_value that splits the key before it checks the class
db_value_split_first(self, model, db_conn) ==
    IF ~issubclass(model.cls, self.model_ref)
    THEN [outcome |-> "raise", ret_ref |-> NoDocRef,
          err |-> Err("ReferenceTypeError",
                      <<FieldName, self.model_ref, model.cls>>),
          calls |-> <<CallOf("ref_path", model.key, <<>>, "-")>>]
    ELSE [outcome |-> "return",
          ret_ref |-> DocumentReference(ref_path(model.key), db_conn),
          err |-> NoErr,
          calls |-> <<CallOf("ref_path", model.key, <<>>, "-"),
                      CallOf("DocumentReference", <<>>,
                             ref_path(model.key), db_conn)>>]

\* ReferenceField.db_value(model), with db.conn: the class check, then
\* ref_path on the key, then the reference constructor
db_value(self, model, db_conn) ==
    IF ~issubclass(model.cls, self.model_ref)
    THEN [outcome |-> "raise", ret_ref |-> NoDocRef,
          err |-> Err("ReferenceTypeError",
                      <<FieldName, self.model_ref, model.cls>>),
          calls |-> <<>>]
    ELSE [outcome |-> "return",
          ret_ref |-> DocumentReference(ref_path(model.key), db_conn),
          err |-> NoErr,
          calls |-> <<CallOf("ref_path", model.key, <<>>, "-"),
                      CallOf("DocumentReference", <<>>,
                             ref_path(model.key), db_conn)>>]

\* an attr_auto_load that tests truthiness-compatible types (bool or int)
attr_auto_load_int(self, owner, attr_val, field_val) ==
    IF attr_val.type \notin {"bool", "int"}
    THEN [outcome |-> "raise", ret |-> PyNone, self |-> self,
          err |-> Err("AttributeTypeError",
                      <<attr_val.type, owner, FieldName>>)]
    ELSE [outcome |-> "return", ret |-> field_val, err |-> NoErr,
          self |-> [self EXCEPT !.auto_load = attr_val]]

\* ReferenceField.attr_auto_load(attr_val, field_val)
attr_auto_load(self, owner, attr_val, field_val) ==
    IF attr_val.type # "bool"
    THEN [outcome |-> "raise", ret |-> PyNone, self |-> self,
          err |-> Err("AttributeTypeError",
                      <<attr_val.type, owner, FieldName>>)]
    ELSE [outcome |-> "return", ret |-> field_val, err |-> NoErr,
          self |-> [self EXCEPT !.auto_load = attr_val]]

\* an attr_on_load that never tests callable(m)
attr_on_load_no_callable_test(self, owner, method_name, field_val) ==
    IF getattr_kind(owner, method_name) = "absent"
    THEN [outcome |-> "raise", ret |-> PyNone, self |-> self,
          err |-> Err("AttributeMethodNotDefined",
                      <<method_name, owner, FieldName>>)]
    ELSE [outcome |-> "return", ret |-> field_val, err |-> NoErr,
          self |-> [self EXCEPT !.on_load = PyStr(method_name)]]

\* an attr_on_load that stores the name before it tests callable(m)
attr_on_load_store_first(self, owner, method_name, field_val) ==
    LET kind == getattr_kind(owner, method_name)
        missing == Err("AttributeMethodNotDefined",
                       <<method_name, owner, FieldName>>)
    IN  IF kind = "absent"
        THEN [outcome |-> "raise", ret |-> PyNone, self |-> self,
              err |-> missing]
        ELSE IF kind = "noncallable"
             THEN [outcome |-> "raise", ret |-> PyNone,
                   self |-> [self EXCEPT !.on_load = PyStr(method_name)],
                   err |-> IF caught_by("AttributeTypeError", "AttributeError")
                           THEN missing
                           ELSE Err("AttributeTypeError",
                                    <<"None", owner, FieldName>>)]
             ELSE [outcome |-> "return", ret |-> field_val, err |-> NoErr,
                   self |-> [self EXCEPT !.on_load = PyStr(method_name)]]

\* ReferenceField.attr_on_load(method_name, field_val): getattr on the
\* owning class, the callable test, and the except clause around both
attr_on_load(self, owner, method_name, field_val) ==
    LET kind == getattr_kind(owner, method_name)
        missing == Err("AttributeMethodNotDefined",
                       <<method_name, owner, FieldName>>)
    IN  IF kind = "absent"
        THEN [outcome |-> "raise", ret |-> PyNone, self |-> self,
              err |-> missing]
        ELSE IF kind = "noncallable"
             THEN [outcome |-> "raise", ret |-> PyNone, self |-> self,
                   err |-> IF caught_by("AttributeTypeError", "AttributeError")
                           THEN missing
                           ELSE Err("AttributeTypeError",
                                    <<"None", owner, FieldName>>)]
             ELSE [outcome |-> "return", ret |-> field_val, err |-> NoErr,
                   self |-> [self EXCEPT !.on_load = PyStr(method_name)]]

(***************************************************************************)
(* Specification of the fields                                             *)
(***************************************************************************)
\* instances handed to the fields: a class and a key
Instances == [cls : Classes \ {"object"}, key : Keys]

FInit ==
    /\ model_cls \in OwnerClasses
    /\ conn \in Conns
    /\ ref = NoRef
    /\ nested = NoNested
    /\ last = NoCall
    /\ UIdle
    /\ SIdle

NewNestedModel(c) ==
    LET r == NestedModel_init(c)
    IN  /\ nested' = IF r.outcome = "return" THEN r.obj ELSE nested
        /\ last' = [NoCall EXCEPT !.op = "NestedModel", !.a_cls = c,
                       !.outcome = r.outcome, !.err = r.err,
                       !.made_nested = r.obj]
        /\ UNCHANGED <<model_cls, conn, ref, uvars, svars>>

ValidModel(c) ==
    /\ nested.built
    /\ LET r == valid_model(nested, c)
       IN  last' = [NoCall EXCEPT !.op = "valid_model", !.a_cls = c,
                       !.outcome = r.outcome, !.ret = r.ret, !.err = r.err]
    /\ UNCHANGED <<model_cls, conn, ref, nested, uvars, svars>>

NewReferenceField(c) ==
    LET r == ReferenceField_init(c)
    IN  /\ ref' = IF r.outcome = "return" THEN r.obj ELSE ref
        /\ last' = [NoCall EXCEPT !.op = "ReferenceField", !.a_cls = c,
                       !.outcome = r.outcome, !.err = r.err,
                       !.made_ref = r.obj]
        /\ UNCHANGED <<model_cls, conn, nested, uvars, svars>>

DbValue(m) ==
    /\ ref.built
    /\ LET r == db_value(ref, m, conn)
       IN  last' = [NoCall EXCEPT !.op = "db_value", !.a_cls = m.cls,
                       !.a_key = m.key, !.outcome = r.outcome,
                       !.ret_ref = r.ret_ref, !.err = r.err,
                       !.calls = r.calls]
    /\ UNCHANGED <<model_cls, conn, ref, nested, uvars, svars>>

AttrAutoLoad(v, fv) ==
    /\ ref.built
    /\ LET r == attr_auto_load(ref, model_cls, v, fv)
       IN  /\ ref' = r.self
           /\ last' = [NoCall EXCEPT !.op = "attr_auto_load", !.a_val = v,
                          !.a_field_val = fv, !.outcome = r.outcome,
                          !.ret = r.ret, !.err = r.err]
    /\ UNCHANGED <<model_cls, conn, nested, uvars, svars>>

AttrOnLoad(n, fv) ==
    /\ ref.built
    /\ LET r == attr_on_load(ref, model_cls, n, fv)
       IN  /\ ref' = r.self
           /\ last' = [NoCall EXCEPT !.op = "attr_on_load", !.a_name = n,
                          !.a_field_val = fv, !.outcome = r.outcome,
                          !.ret = r.ret, !.err = r.err]
    /\ UNCHANGED <<model_cls, conn, nested, uvars, svars>>

Next ==
    \/ \E c \in Classes : NewNestedModel(c)
    \/ \E c \in Classes \ {"object"} : ValidModel(c)
    \/ \E c \in Classes : NewReferenceField(c)
    \/ \E m \in Instances : DbValue(m)
    \/ \E v \in AttrVals, fv \in FieldVals : AttrAutoLoad(v, fv)
    \/ \E n \in MethodNames, fv \in FieldVals : AttrOnLoad(n, fv)

Spec == FInit /\ [][Next]_vars

(***************************************************************************)
(* C1: valid_model returns True exactly when the instance's class is the   *)
(* declared nested_model class; for every other instance, a proper         *)
(* subclass included, it raises NestedModelTypeError and returns nothing.  *)
(***************************************************************************)
C1_ValidModelExact ==
    last.op = "valid_model" =>
        /\ last.outcome \in {"return", "raise"}
        /\ (last.outcome = "return") <=> (last.a_cls = nested.nested_model)
        /\ last.outcome = "return" => last.ret = PyTrue /\ last.err = NoErr
        /\ last.outcome = "raise" =>
               /\ last.err.kind = "NestedModelTypeError"
               /\ last.ret = NoCall.ret

\* an instance of a proper subclass of the declared class was rejected
C1_Witness ==
    /\ last.op = "valid_model"
    /\ nested.nested_model = "User"
    /\ last.a_cls = "Admin"
    /\ last.outcome = "raise"

(***************************************************************************)
(* C2: db_value returns a document reference for every instance whose      *)
(* class is model_ref or a direct or transitive subclass of it, and raises *)
(* ReferenceTypeError for every instance of any other class (unrelated, or *)
(* a superclass of model_ref).                                             *)
(***************************************************************************)
\* c is d, or reaches d by following base classes
RECURSIVE DerivesFrom(_, _, _)
DerivesFrom(c, d, fuel) ==
    \/ c = d
    \/ fuel > 0 /\ \E b \in Bases(c) : DerivesFrom(b, d, fuel - 1)

C3_ConstructorsCheckBase ==
    /\ last.op = "ReferenceField" =>
           IF DerivesFrom(last.a_cls, "Model", Cardinality(Classes))
           THEN /\ last.outcome = "return"
                /\ ref.built /\ ref.model_ref = last.a_cls
                /\ ref = last.made_ref
           ELSE /\ last.outcome = "raise"
                /\ last.err.kind = "ReferenceTypeError"
                /\ last.made_ref.model_ref = Unset
                /\ ref.model_ref # last.a_cls
    /\ last.op = "NestedModel" =>
           IF DerivesFrom(last.a_cls, "Model", Cardinality(Classes))
           THEN /\ last.outcome = "return"
                /\ nested.built /\ nested.nested_model = last.a_cls
                /\ nested = last.made_nested
           ELSE /\ last.outcome = "raise"
                /\ last.err.kind = "NestedModelTypeError"
                /\ last.made_nested.nested_model = Unset
                /\ nested.nested_model # last.a_cls

\* a construction with a non-model class failed while a field existed
C3_Witness ==
    /\ last.op = "ReferenceField"
    /\ last.a_cls = "Plain"
    /\ last.outcome = "raise"
    /\ ref.built

(***************************************************************************)
(* C4: attr_auto_load(v, field_val) with a non-boolean v fails with        *)
(* AttributeTypeError; with True or False it succeeds, returns field_val   *)
(* unchanged, and the field's auto_load reads v until the next successful  *)
(* attr_auto_load; a freshly constructed ReferenceField reads True.        *)
(***************************************************************************)
C4_AutoLoadCall ==
    /\ last.op = "attr_auto_load" =>
           IF last.a_val \in {PyTrue, PyFalse}
           THEN /\ last.outcome = "return"
                /\ last.ret = last.a_field_val
                /\ ref.auto_load = last.a_val
           ELSE /\ last.outcome = "raise"
                /\ last.err.kind = "AttributeTypeError"
    /\ (last.op = "ReferenceField" /\ last.outcome = "return") =>
           ref.auto_load = PyTrue

\* on one field object, auto_load changes only by a successful attr_auto_load
C4_AutoLoadKept ==
    (ref.built /\ last'.op # "ReferenceField"
        /\ ref'.auto_load # ref.auto_load)
    => (last'.op = "attr_auto_load" /\ last'.outcome = "return"
        /\ ref'.auto_load = last'.a_val)

C4_AutoLoad == [](C4_AutoLoadCall) /\ [][C4_AutoLoadKept]_vars

\* False was set, a later non-boolean was refused, and False is still read
C4_Witness ==
    /\ last.op = "attr_auto_load"
    /\ last.a_val = PyInt("1")
    /\ last.outcome = "raise"
    /\ ref.auto_load = PyFalse

C9_DbValueCall ==
    last.op = "db_value" =>
        IF last.outcome = "raise"
        THEN last.calls = <<>> /\ last.ret_ref = NoDocRef
        ELSE /\ Len(last.calls) = 2
             /\ last.calls[1].fn = "ref_path"
             /\ last.calls[1].key = last.a_key
             /\ last.calls[2].fn = "DocumentReference"
             /\ last.calls[2].path = ref_path(last.a_key)
             /\ last.calls[2].client = conn
             /\ last.ret_ref.path = ref_path(last.a_key)
             /\ last.ret_ref.client = conn

C9_SameKeySamePath ==
    (/\ last.op = "db_value" /\ last.outcome = "return"
     /\ last'.op = "db_value" /\ last'.outcome = "return"
     /\ last'.a_key = last.a_key)
    => last'.ret_ref.path = last.ret_ref.path

C9_DbValueOrder == [](C9_DbValueCall) /\ [][C9_SameKeySamePath]_vars

\* a rejected instance: nothing was split or constructed
C9_Witness ==
    /\ last.op = "db_value"
    /\ last.outcome = "raise"
    /\ last.a_key = <<"u", "/">>
    /\ last.calls = <<>>
    /\ ref.auto_load = PyFalse
    /\ ref.on_load # PyNone

(***************************************************************************)
(* C10: after any sequence of attr_auto_load and attr_on_load calls,       *)
(* auto_load is a boolean and on_load is None or the name of a callable    *)
(* attribute of the owning class; a failed call of either handler leaves   *)
(* auto_load, on_load and model_ref unchanged, and a successful call       *)
(* changes only its own attribute.                                         *)
(***************************************************************************)
C10_AttrsWellFormed ==
    ref.built =>
        /\ ref.auto_load \in {PyTrue, PyFalse}
        /\ \/ ref.on_load = PyNone
           \/ /\ ref.on_load.type = "str"
              /\ getattr_kind(model_cls, ref.on_load.val) = "callable"

C10_AttrStep ==
    /\ (last'.op \in {"attr_auto_load", "attr_on_load"}
            /\ last'.outcome = "raise") => ref' = ref
    /\ last'.op = "attr_auto_load" =>
           /\ ref'.on_load = ref.on_load
           /\ ref'.model_ref = ref.model_ref
    /\ last'.op = "attr_on_load" =>
           /\ ref'.auto_load = ref.auto_load
           /\ ref'.model_ref = ref.model_ref

C10_AttrHandlers == [](C10_AttrsWellFormed) /\ [][C10_AttrStep]_vars

\* on_load was set, then a call naming a non-callable attribute failed
C10_Witness ==
    /\ last.op = "attr_on_load"
    /\ last.outcome = "raise"
    /\ last.a_name = "title"
    /\ ref.on_load = PyStr("after_load")
    /\ ref.auto_load = PyFalse

(***************************************************************************)
(* The collection of test_issue_87: create and fetch                       *)
(***************************************************************************)
MaxDocs == 4        \* documents the scenario creates at most

\* keyword arguments of collection.create: no value, or name=<text>
NoKwargs == [f \in {} |-> PyNone]
NameKwargs(v) == [f \in {"name"} |-> PyStr(v)]
CreateKwargs == {NoKwargs, NameKwargs("Abc_company"), NameKwargs("Xyz")}

\* the document of a model with one TextField: an unset field holds None
DocOf(id, kwargs) ==
    [id |-> id,
     name |-> IF "name" \in DOMAIN kwargs THEN kwargs["name"] ELSE PyNone]

\* a create that identifies a document by its content
create_by_content(store, id, kwargs) ==
    [docs |-> store \cup {DocOf(0, kwargs)}, ret |-> DocOf(0, kwargs)]

\* collection.create(**kwargs): the backend assigns the identifier `id`
create(store, id, kwargs) ==
    [docs |-> store \cup {DocOf(id, kwargs)}, ret |-> DocOf(id, kwargs)]

\* collection.fetch(): every document of the collection
fetch(store) == store

SInit ==
    /\ docs = {}
    /\ next_id = 1
    /\ created = <<>>
    /\ fetched = {}
    /\ s_pc = "create"
    /\ UIdle
    /\ FIdle

Create(kwargs) ==
    /\ s_pc = "create"
    /\ Len(created) < MaxDocs
    /\ LET r == create(docs, next_id, kwargs)
       IN  /\ docs' = r.docs
           /\ created' = Append(created, r.ret)
    /\ next_id' = next_id + 1
    /\ UNCHANGED <<fetched, s_pc, uvars, fvars>>

Fetch ==
    /\ s_pc = "create"
    /\ fetched' = fetch(docs)
    /\ s_pc' = "fetched"
    /\ UNCHANGED <<docs, next_id, created, uvars, fvars>>

SNext == (\E k \in CreateKwargs : Create(k)) \/ Fetch

SpecStore == SInit /\ [][SNext]_vars

(***************************************************************************)
(* C8: after N documents were created in an initially empty collection,    *)
(* each create returning an instance, fetch returns exactly N documents,   *)
(* whether a document was created with a value or without: documents       *)
(* created without values are neither dropped nor merged.                  *)
(***************************************************************************)
C8_FetchCountsCreated ==
    s_pc = "fetched" =>
        /\ Cardinality(fetched) = Len(created)
        /\ \A i \in 1..Len(created) : created[i] \in fetched

\* the scenario of the test: one explicit value, two defaults, three fetched
C8_Witness ==
    /\ s_pc = "fetched"
    /\ Len(created) = 3
    /\ created[1].name = PyStr("Abc_company")
    /\ created[2].name = PyNone
    /\ created[3].name = PyNone
    /\ Cardinality(fetched) = 3

====
